---- MODULE Spec2Model ----
(***************************************************************************)
(* Model of the Android clipboard reader                                   *)
(* (super_native_extensions/rust/src/android/reader.rs).                   *)
(*                                                                         *)
(* The reader turns the callback-driven ClipDataHelper.getData foreign     *)
(* call into an awaitable result: get_data_for_item allocates a handle     *)
(* from NEXT_HANDLE, registers a FutureCompleter under it in PENDING and   *)
(* issues the foreign call; the foreign side answers through onData, which *)
(* decodes the payload and posts a task to the run loop; the task removes  *)
(* the entry from PENDING and completes it.                                *)
(***************************************************************************)
EXTENDS Integers, Sequences, FiniteSets, TLC

(***************************************************************************)
(* Bounds of the model.                                                    *)
(***************************************************************************)
MaxCallers == 2      \* async calls made on the reader (one per caller)
MaxCallbacks == 2    \* onData invocations made by the foreign side
MaxItems == 2        \* largest item count a content object reports
MaxLen == 3          \* characters after the scheme in a payload text

(***************************************************************************)
(* Program constants.                                                      *)
(***************************************************************************)
FirstHandle == 1           \* NEXT_HANDLE: Cell<i64> = Cell::new(1)
JintMax == 2147483647      \* largest value of the jint parameter of onData
JintMin == (-JintMax) - 1

MaxBytes == 2        \* longest byte array handed to onData

MIME_TYPE_URI_LIST == "text/uri-list"
MIME_TYPE_TEXT_PLAIN == "text/plain"

Callers == 1 .. MaxCallers
NoCaller == 0
NoHandle == <<0, 0>>
Items == 0 .. (MaxItems - 1)
Formats == {MIME_TYPE_URI_LIST, MIME_TYPE_TEXT_PLAIN}
FormatLists ==
    { <<>>, <<MIME_TYPE_TEXT_PLAIN>>, <<MIME_TYPE_URI_LIST>>,
      <<MIME_TYPE_TEXT_PLAIN, MIME_TYPE_URI_LIST>> }

(***************************************************************************)
(* Sequence helpers.                                                       *)
(***************************************************************************)
Last(s) == s[Len(s)]

SeqsUpTo(S, n) == UNION { [1 .. k -> S] : k \in 0 .. n }

(***************************************************************************)
(* Results and values.  NativeExtensionsResult<T> is Ok(val) or Err(val);  *)
(* Value is Null, String(text) or U8List(bytes); only the length of a byte *)
(* list is kept.  Every field is a sequence so that results compare.       *)
(***************************************************************************)
Ok(tag, v) == [kind |-> "Ok", tag |-> tag, val |-> v]
Err(e) == [kind |-> "Err", tag |-> e, val |-> <<>>]
NoRet == [kind |-> "None", tag |-> "", val |-> <<>>]

ValueNull == Ok("Null", <<>>)
ValueString(text) == Ok("String", text)
ValueU8List(len) == Ok("U8List", [i \in 1 .. len |-> 0])

JniError == Err("JNIError")
OtherError == Err("OtherError")
UnsupportedOperation == Err("UnsupportedOperation")

OptNone == Ok("OptNone", <<>>)
OptSome(s) == Ok("OptSome", s)

(***************************************************************************)
(* Payload texts.  A text is a sequence of characters; a leading scheme    *)
(* with its colon is kept as one token ("file:" a special scheme,          *)
(* "content:" a non-special one), the rest is made of "/" and letters.     *)
(***************************************************************************)
SchemeTokens == {"file:", "content:"}
PathChars == {"/", "a", "b"}

AllTexts ==
    { r : r \in SeqsUpTo(PathChars, MaxLen) } \cup
    { <<s>> \o r : s \in SchemeTokens, r \in SeqsUpTo(PathChars, MaxLen) }

SampleText == <<"file:", "/", "a", "/", "b">>

(***************************************************************************)
(* Url::parse, restricted to the texts above.  A text without a scheme is  *)
(* a relative URL without a base: an error.  For "file:" the path always   *)
(* starts with "/" ("file:a" is file:///a, "file://h" has path "/").  For  *)
(* a non-special scheme, "//" starts an authority that runs to the next    *)
(* "/", a single "/" starts the path, and anything else is an opaque       *)
(* (cannot-be-a-base) path.                                                *)
(***************************************************************************)
RECURSIVE DropHost(_)
DropHost(s) ==
    IF s = <<>> \/ Head(s) = "/" THEN s ELSE DropHost(Tail(s))

StartsWithSlashSlash(s) == Len(s) >= 2 /\ s[1] = "/" /\ s[2] = "/"

UrlParse(text) ==
    IF text = <<>> \/ Head(text) \notin SchemeTokens
    THEN [ok |-> FALSE, path |-> <<>>]
    ELSE LET rest == Tail(text)
             afterHost == DropHost(Tail(Tail(rest)))
         IN  IF Head(text) = "file:"
             THEN IF StartsWithSlashSlash(rest)
                  THEN [ok |-> TRUE,
                        path |-> IF afterHost = <<>> THEN <<"/">> ELSE afterHost]
                  ELSE IF rest # <<>> /\ Head(rest) = "/"
                  THEN [ok |-> TRUE, path |-> rest]
                  ELSE [ok |-> TRUE, path |-> <<"/">> \o rest]
             ELSE IF StartsWithSlashSlash(rest)
                  THEN [ok |-> TRUE, path |-> afterHost]
                  ELSE [ok |-> TRUE, path |-> rest]

(***************************************************************************)
(* Url::path_segments: None unless the path starts with "/", else the path *)
(* after that "/" split at every "/".  The result is a non-empty sequence  *)
(* of segments, <<>> standing for None.                                    *)
(***************************************************************************)
RECURSIVE SplitSlash(_)
SplitSlash(s) ==
    IF s = <<>> THEN << <<>> >>
    ELSE LET r == SplitSlash(Tail(s))
         IN  IF Head(s) = "/"
             THEN << <<>> >> \o r
             ELSE << <<Head(s)>> \o Head(r) >> \o Tail(r)

PathSegments(url) ==
    IF url.path # <<>> /\ Head(url.path) = "/"
    THEN SplitSlash(Tail(url.path))
    ELSE <<>>

(***************************************************************************)
(* segments.last().filter(|s| !s.is_empty()).map(|f| f.to_owned())         *)
(***************************************************************************)
RECURSIVE LastNonEmpty(_)
LastNonEmpty(segments) ==
    IF segments = <<>> THEN OptNone
    ELSE IF Last(segments) # <<>> THEN OptSome(Last(segments))
    ELSE LastNonEmpty(SubSeq(segments, 1, Len(segments) - 1))

LastSegmentFallback(segments) == LastNonEmpty(segments)

LastSegment(segments) ==
    IF Last(segments) # <<>> THEN OptSome(Last(segments)) ELSE OptNone

(***************************************************************************)
(* The tail of get_suggested_name_for_item, after the awaited fetch has    *)
(* produced `uri` (a result): `?` propagates an error, a non-text value,   *)
(* an unparseable text or a URL without path segments give Ok(None).       *)
(***************************************************************************)
SuggestedNameFrom(uri) ==
    IF uri.kind = "Err" THEN uri
    ELSE IF uri.tag # "String" THEN OptNone
    ELSE LET url == UrlParse(uri.val)
         IN  IF ~url.ok THEN OptNone
             ELSE IF PathSegments(url) = <<>> THEN OptNone
             ELSE LastSegment(PathSegments(url))


(***************************************************************************)
(* An i64 is kept as <<hi, lo>>, standing for hi * 2^32 + lo with lo a     *)
(* signed 32-bit integer, so that the whole range of the counter can be    *)
(* written down.  I64(n) is the i64 of a jint n.                           *)
(***************************************************************************)
I64(n) == <<0, n>>

I64Less(v, w) == v[1] < w[1] \/ (v[1] = w[1] /\ v[2] < w[2])

I64Succ(v) ==
    IF v[2] = JintMax THEN <<v[1] + 1, JintMin>> ELSE <<v[1], v[2] + 1>>

(***************************************************************************)
(* The handle crosses the foreign boundary twice.  getData takes it as a   *)
(* Java int ("I" in the signature) although a 64-bit value is passed: the  *)
(* foreign side reads its low 32 bits.  onData gets it back as a jint and  *)
(* widens it with `handle as i64`, which sign-extends.                     *)
(***************************************************************************)
JintOf(v) == v[2]

I64OfJint(j) == I64(j)

(***************************************************************************)
(* NEXT_HANDLE.with(|h| { let res = h.get(); h.set(res + 1); res })        *)
(***************************************************************************)
AllocHandleNoIncrement(next) == [handle |-> next, next |-> next]

AllocHandle(next) == [handle |-> next, next |-> I64Succ(next)]

(***************************************************************************)
(* PENDING: HashMap<i64, FutureCompleter<..>>, a function from the handles *)
(* registered to the caller whose completer is stored there.               *)
(***************************************************************************)
PendingInsert(m, h, c) ==
    [k \in (DOMAIN m) \cup {h} |-> IF k = h THEN c ELSE m[k]]

PendingPeek(m, h) ==
    [completer |-> IF h \in DOMAIN m THEN m[h] ELSE NoCaller, map |-> m]

PendingRemove(m, h) ==
    [completer |-> IF h \in DOMAIN m THEN m[h] ELSE NoCaller,
     map |-> [k \in (DOMAIN m) \ {h} |-> m[k]]]

(***************************************************************************)
(* RUN_LOOP_SENDER.get_or_init(|| ...): the initialiser runs only when the *)
(* cell is empty.  `cell` says whether the cell holds a sender.            *)
(***************************************************************************)
OnceCellSet(cell) == [cell |-> TRUE, ran |-> TRUE]

OnceCellGetOrInit(cell) == [cell |-> TRUE, ran |-> ~cell]

(***************************************************************************)
(* The content object held by the reader: None, or a ClipData with its     *)
(* item count, the formats its helper lists and the text of its URI.       *)
(***************************************************************************)
NoClip == [some |-> FALSE, count |-> 0, formats |-> <<>>, uri |-> <<>>]

ClipsOver(texts) ==
    { [some |-> TRUE, count |-> n, formats |-> f, uri |-> u] :
        n \in 0 .. MaxItems, f \in FormatLists, u \in texts }

(***************************************************************************)
(* Where a foreign call made by an operation fails, if it does: attaching  *)
(* to the VM (get_env_and_context), converting the format string           *)
(* (env.new_string) or invoking the method (env.call_method).              *)
(***************************************************************************)
FailureModes == {"none", "env", "str", "call"}

get_env_and_context(fail) ==
    IF fail = "env" THEN OtherError ELSE Ok("Env", <<>>)

(***************************************************************************)
(* get_items_sync: (0..count as i64).collect()                             *)
(***************************************************************************)
ItemRangeFromOne(count) == [i \in 1 .. count |-> i]

ItemRange(count) == [i \in 1 .. count |-> i - 1]

get_items_sync(clip, fail) ==
    IF ~clip.some THEN Ok("Vec", <<>>)
    ELSE IF get_env_and_context(fail).kind = "Err" THEN get_env_and_context(fail)
    ELSE IF fail = "call" THEN JniError
    ELSE Ok("Vec", ItemRange(clip.count))

(***************************************************************************)
(* get_formats_for_item_sync                                               *)
(***************************************************************************)
get_formats_for_item_sync(clip, item, fail) ==
    IF ~clip.some THEN Ok("Vec", <<>>)
    ELSE IF get_env_and_context(fail).kind = "Err" THEN get_env_and_context(fail)
    ELSE IF fail = "call" THEN JniError
    ELSE Ok("Vec", clip.formats)

(***************************************************************************)
(* get_data_for_item up to its await, as a function of the reader's        *)
(* content object, NEXT_HANDLE and PENDING.  `ret` is NoRet when the       *)
(* caller suspends on the future; `issued` says that getData was invoked.  *)
(***************************************************************************)
DataStep(next, pending, ret, handle, issued) ==
    [next |-> next, pending |-> pending, ret |-> ret, handle |-> handle,
     issued |-> issued]

get_data_for_item_alloc_first(clip, next, pending, c, fail) ==
    LET a == AllocHandle(next)
        registered == PendingInsert(pending, a.handle, c)
    IN  IF ~clip.some
        THEN DataStep(a.next, registered, ValueNull, a.handle, FALSE)
        ELSE IF get_env_and_context(fail).kind = "Err"
        THEN DataStep(a.next, registered, get_env_and_context(fail), a.handle, FALSE)
        ELSE IF fail \in {"str", "call"}
        THEN DataStep(a.next, registered, JniError, a.handle, FALSE)
        ELSE DataStep(a.next, registered, NoRet, a.handle, TRUE)

get_data_for_item_unregistered(clip, next, pending, c, fail) ==
    IF ~clip.some
    THEN DataStep(next, pending, ValueNull, NoHandle, FALSE)
    ELSE IF get_env_and_context(fail).kind = "Err"
    THEN DataStep(next, pending, get_env_and_context(fail), NoHandle, FALSE)
    ELSE LET a == AllocHandle(next)
         IN  IF fail \in {"str", "call"}
             THEN DataStep(a.next, pending, JniError, a.handle, FALSE)
             ELSE DataStep(a.next, pending, NoRet, a.handle, TRUE)

get_data_for_item(clip, next, pending, c, fail) ==
    IF ~clip.some
    THEN DataStep(next, pending, ValueNull, NoHandle, FALSE)
    ELSE IF get_env_and_context(fail).kind = "Err"
    THEN DataStep(next, pending, get_env_and_context(fail), NoHandle, FALSE)
    ELSE LET a == AllocHandle(next)
             registered == PendingInsert(pending, a.handle, c)
         IN  IF fail \in {"str", "call"}
             THEN DataStep(a.next, registered, JniError, a.handle, FALSE)
             ELSE DataStep(a.next, registered, NoRet, a.handle, TRUE)

(***************************************************************************)
(* can_get_virtual_file_for_item and get_virtual_file_for_item             *)
(***************************************************************************)
can_get_virtual_file_for_item_yes(item, format) == Ok("Bool", <<TRUE>>)

can_get_virtual_file_for_item(item, format) == Ok("Bool", <<FALSE>>)

get_virtual_file_for_item(item, format) == UnsupportedOperation

(***************************************************************************)
(* The payload handed to onData and its decoding (the closure `data`).     *)
(***************************************************************************)
PayloadNull == [shape |-> "null", text |-> <<>>, len |-> 0]
PayloadChars(text) == [shape |-> "chars", text |-> text, len |-> 0]
PayloadBytes(n) == [shape |-> "bytes", text |-> <<>>, len |-> n]

NoPayload == [shape |-> "none", text |-> <<>>, len |-> 0, ok |-> TRUE]

PayloadsOf(clip) ==
    {PayloadNull, PayloadBytes(1)} \cup
    (IF clip.some THEN {PayloadChars(clip.uri)} ELSE {})

DecodeTextAsBytes(payload, jniOk) ==
    IF payload.shape = "null" THEN ValueNull
    ELSE IF ~jniOk THEN JniError
    ELSE ValueU8List(IF payload.shape = "chars" THEN Len(payload.text)
                     ELSE payload.len)

Decode(payload, jniOk) ==
    IF payload.shape = "null" THEN ValueNull
    ELSE IF ~jniOk THEN JniError
    ELSE IF payload.shape = "chars" THEN ValueString(payload.text)
    ELSE ValueU8List(payload.len)


(***************************************************************************)
(* State.                                                                  *)
(***************************************************************************)
VARIABLES
    clip_data,         \* PlatformDataReader.clip_data (NoClip for None)
    RUN_LOOP_SENDER,   \* TRUE once the OnceCell holds a sender
    NEXT_HANDLE,       \* thread-local handle counter
    PENDING,           \* thread-local map handle -> completer (its caller)
    pc,                \* per caller: "idle", "awaiting" or "returned"
    op,                \* per caller: the operation it called
    ret,               \* per caller: the result returned, NoRet before
    handle,            \* per caller: the handle get_data_for_item allocated
    issued,            \* per caller: getData was invoked for its request
    foreign,           \* getData requests the foreign side has received
    queue,             \* tasks posted to the run loop, oldest first
    delivered,         \* per caller: results its completer was completed with
    ncb,               \* number of onData invocations so far
    ignored,           \* tasks that found no entry in PENDING: how many for a
                       \* handle never allocated, how many for one completed
    crashed,           \* a panic took the process down
    sender_inits,      \* times the initialiser of RUN_LOOP_SENDER has run
    reader_dropped,    \* the last reference to the reader was dropped
    decoded            \* the payload the latest observed onData was handed

vars ==
    << clip_data, RUN_LOOP_SENDER, NEXT_HANDLE, PENDING, pc, op, ret, handle,
       issued, foreign, queue, delivered, ncb, ignored, crashed, sender_inits,
       reader_dropped, decoded >>

callerVars == << pc, op, ret, handle, issued >>
registryVars == << NEXT_HANDLE, PENDING >>
foreignVars == << foreign, queue, ncb >>

InitWith(clips) ==
    /\ clip_data \in clips
    /\ RUN_LOOP_SENDER = FALSE
    /\ NEXT_HANDLE = I64(FirstHandle)
    /\ PENDING = << >>
    /\ pc = [c \in Callers |-> "idle"]
    /\ op = [c \in Callers |-> "none"]
    /\ ret = [c \in Callers |-> NoRet]
    /\ handle = [c \in Callers |-> NoHandle]
    /\ issued = [c \in Callers |-> FALSE]
    /\ foreign = {}
    /\ queue = << >>
    /\ delivered = [c \in Callers |-> << >>]
    /\ ncb = 0
    /\ ignored = [never |-> 0, completed |-> 0]
    /\ crashed = FALSE
    /\ sender_inits = 0
    /\ reader_dropped = FALSE
    /\ decoded = NoPayload

(* A reader without content object, or one over a clip with a URI. *)
SampleClip ==
    [some |-> TRUE, count |-> MaxItems,
     formats |-> <<MIME_TYPE_TEXT_PLAIN, MIME_TYPE_URI_LIST>>, uri |-> SampleText]

Init == InitWith({NoClip, SampleClip})

(***************************************************************************)
(* A caller makes one call; callers are numbered in the order they call.   *)
(***************************************************************************)
CanCall(c) ==
    /\ ~crashed
    /\ ~reader_dropped
    /\ pc[c] = "idle"
    /\ \A d \in Callers : d < c => pc[d] # "idle"

Returns(c, name, result) ==
    /\ pc' = [pc EXCEPT ![c] = "returned"]
    /\ op' = [op EXCEPT ![c] = name]
    /\ ret' = [ret EXCEPT ![c] = result]

(***************************************************************************)
(* get_items, get_formats_for_item: async wrappers that never suspend.     *)
(***************************************************************************)
GetItems(c) ==
    /\ CanCall(c)
    /\ \E fail \in FailureModes \ {"str"} :
          Returns(c, "get_items", get_items_sync(clip_data, fail))
    /\ UNCHANGED << clip_data, RUN_LOOP_SENDER, registryVars, handle, issued,
                    foreignVars, delivered, ignored, crashed, sender_inits,
                    reader_dropped, decoded >>

GetFormatsForItem(c) ==
    /\ CanCall(c)
    /\ \E item \in Items, fail \in FailureModes \ {"str"} :
          Returns(c, "get_formats_for_item",
                  get_formats_for_item_sync(clip_data, item, fail))
    /\ UNCHANGED << clip_data, RUN_LOOP_SENDER, registryVars, handle, issued,
                    foreignVars, delivered, ignored, crashed, sender_inits,
                    reader_dropped, decoded >>

(***************************************************************************)
(* can_get_virtual_file_for_item, get_virtual_file_for_item.               *)
(***************************************************************************)
CanGetVirtualFileForItem(c) ==
    /\ CanCall(c)
    /\ \E item \in Items, format \in Formats :
          Returns(c, "can_get_virtual_file_for_item",
                  can_get_virtual_file_for_item(item, format))
    /\ UNCHANGED << clip_data, RUN_LOOP_SENDER, registryVars, handle, issued,
                    foreignVars, delivered, ignored, crashed, sender_inits,
                    reader_dropped, decoded >>

GetVirtualFileForItem(c) ==
    /\ CanCall(c)
    /\ \E item \in Items, format \in Formats :
          Returns(c, "get_virtual_file_for_item",
                  get_virtual_file_for_item(item, format))
    /\ UNCHANGED << clip_data, RUN_LOOP_SENDER, registryVars, handle, issued,
                    foreignVars, delivered, ignored, crashed, sender_inits,
                    reader_dropped, decoded >>

(***************************************************************************)
(* The part of get_data_for_item that runs before its await, for caller c  *)
(* calling operation `name`: the sender is initialised, then the step      *)
(* computed by get_data_for_item is applied; the foreign side receives the *)
(* handle as a jint when getData was invoked.                              *)
(***************************************************************************)
IssueData(c, name, fail) ==
    LET step == get_data_for_item(clip_data, NEXT_HANDLE, PENDING, c, fail)
        sender == OnceCellGetOrInit(RUN_LOOP_SENDER)
    IN  /\ RUN_LOOP_SENDER' = sender.cell
        /\ sender_inits' = IF sender.ran THEN sender_inits + 1 ELSE sender_inits
        /\ NEXT_HANDLE' = step.next
        /\ PENDING' = step.pending
        /\ handle' = [handle EXCEPT ![c] = step.handle]
        /\ issued' = [issued EXCEPT ![c] = step.issued]
        /\ op' = [op EXCEPT ![c] = name]
        /\ ret' = [ret EXCEPT ![c] = step.ret]
        /\ pc' = [pc EXCEPT ![c] = IF step.ret = NoRet THEN "awaiting" ELSE "returned"]
        /\ foreign' = IF step.issued
                      THEN foreign \cup {[jh |-> JintOf(step.handle), req |-> c]}
                      ELSE foreign

GetDataForItem(c) ==
    /\ CanCall(c)
    /\ \E item \in Items, format \in Formats, fail \in FailureModes :
          IssueData(c, "get_data_for_item", fail)
    /\ UNCHANGED << clip_data, queue, ncb, delivered, ignored, crashed,
                    reader_dropped, decoded >>

(***************************************************************************)
(* get_suggested_name_for_item up to its await: the formats are listed     *)
(* (`?` returns the error), and when the URI-list format is among them the *)
(* data is requested (`?` returns an issuance error); otherwise Ok(None).  *)
(***************************************************************************)
HasUriList(formats) == \E i \in 1 .. Len(formats) : formats[i] = MIME_TYPE_URI_LIST

GetSuggestedNameForItem(c) ==
    /\ CanCall(c)
    /\ \E item \in Items, failFormats \in FailureModes \ {"str"},
          failData \in FailureModes :
          LET formats == get_formats_for_item_sync(clip_data, item, failFormats)
          IN  IF formats.kind = "Err"
              THEN /\ Returns(c, "get_suggested_name_for_item", formats)
                   /\ UNCHANGED << RUN_LOOP_SENDER, registryVars, handle, issued,
                                   foreign, sender_inits >>
              ELSE IF HasUriList(formats.val)
              THEN IssueData(c, "get_suggested_name_for_item", failData)
              ELSE /\ Returns(c, "get_suggested_name_for_item", OptNone)
                   /\ UNCHANGED << RUN_LOOP_SENDER, registryVars, handle, issued,
                                   foreign, sender_inits >>
    /\ UNCHANGED << clip_data, queue, ncb, delivered, ignored, crashed,
                    reader_dropped, decoded >>

(***************************************************************************)
(* onData(handle, data), on whatever thread the foreign side calls it:     *)
(* RUN_LOOP_SENDER.get().unwrap() panics when no sender was set; otherwise *)
(* the payload is decoded and one task is posted to the run loop.  `req`   *)
(* names the request the foreign side is answering (NoCaller if none).     *)
(***************************************************************************)
OnDataRemovesEntry(jh, payload, jniOk, req) ==
    /\ ~crashed
    /\ ncb < MaxCallbacks
    /\ ncb' = ncb + 1
    /\ IF ~RUN_LOOP_SENDER
       THEN /\ crashed' = TRUE
            /\ UNCHANGED << queue, PENDING >>
       ELSE /\ queue' = Append(queue, [handle |-> I64OfJint(jh),
                                        result |-> Decode(payload, jniOk),
                                        req |-> req])
            /\ PENDING' = PendingRemove(PENDING, I64OfJint(jh)).map
            /\ UNCHANGED crashed
    /\ UNCHANGED << clip_data, RUN_LOOP_SENDER, NEXT_HANDLE, callerVars,
                    foreign, delivered, ignored, sender_inits, reader_dropped >>

OnDataDropError(jh, payload, jniOk, req) ==
    /\ ~crashed
    /\ ncb < MaxCallbacks
    /\ ncb' = ncb + 1
    /\ IF ~RUN_LOOP_SENDER
       THEN /\ crashed' = TRUE
            /\ UNCHANGED queue
       ELSE /\ queue' = IF Decode(payload, jniOk).kind = "Err" THEN queue
                        ELSE Append(queue, [handle |-> I64OfJint(jh),
                                            result |-> Decode(payload, jniOk),
                                            req |-> req])
            /\ UNCHANGED crashed
    /\ UNCHANGED << clip_data, RUN_LOOP_SENDER, registryVars, callerVars,
                    foreign, delivered, ignored, sender_inits, reader_dropped >>

OnData(jh, payload, jniOk, req) ==
    /\ ~crashed
    /\ ncb < MaxCallbacks
    /\ ncb' = ncb + 1
    /\ IF ~RUN_LOOP_SENDER
       THEN /\ crashed' = TRUE
            /\ UNCHANGED queue
       ELSE /\ queue' = Append(queue, [handle |-> I64OfJint(jh),
                                        result |-> Decode(payload, jniOk),
                                        req |-> req])
            /\ UNCHANGED crashed
    /\ UNCHANGED << clip_data, RUN_LOOP_SENDER, registryVars, callerVars,
                    foreign, delivered, ignored, sender_inits, reader_dropped >>

(* The foreign side answers a getData request it received. *)
OnDataAnswer ==
    /\ \E r \in foreign, payload \in PayloadsOf(clip_data), jniOk \in BOOLEAN :
          OnData(r.jh, payload, jniOk, r.req)
    /\ UNCHANGED decoded

(* The foreign side calls back with a handle no request of its own carries. *)
UnmatchedHandles == {FirstHandle, FirstHandle + 1}

OnDataUnmatched ==
    /\ \E jh \in UnmatchedHandles :
          /\ \A r \in foreign : r.jh # jh
          /\ OnData(jh, PayloadNull, TRUE, NoCaller)
    /\ UNCHANGED decoded

(***************************************************************************)
(* The task posted by onData, run by the run loop on the owning thread:    *)
(* PENDING.remove(handle), and complete the completer if there was one.    *)
(***************************************************************************)
TaskEffectDropResult(pending, done, task) ==
    LET r == PendingRemove(pending, task.handle)
    IN  [pending |-> r.map, found |-> r.completer # NoCaller, delivered |-> done]

TaskEffect(pending, done, task) ==
    LET r == PendingRemove(pending, task.handle)
    IN  [pending |-> r.map,
         found |-> r.completer # NoCaller,
         delivered |-> IF r.completer = NoCaller THEN done
                       ELSE [done EXCEPT ![r.completer] = Append(@, task)]]

RunTask ==
    /\ ~crashed
    /\ queue # << >>
    /\ LET e == TaskEffect(PENDING, delivered, Head(queue))
       IN  /\ PENDING' = e.pending
           /\ delivered' = e.delivered
           /\ ignored' = IF e.found THEN ignored
                         ELSE IF I64Less(Head(queue).handle, NEXT_HANDLE)
                         THEN [ignored EXCEPT !.completed = @ + 1]
                         ELSE [ignored EXCEPT !.never = @ + 1]
    /\ queue' = Tail(queue)
    /\ UNCHANGED << clip_data, RUN_LOOP_SENDER, NEXT_HANDLE, callerVars,
                    foreign, ncb, crashed, sender_inits, reader_dropped,
                    decoded >>

(***************************************************************************)
(* `future.await` returns once the completer was completed; the caller of  *)
(* get_suggested_name_for_item goes on to derive the name.                 *)
(***************************************************************************)
Resume(c) ==
    /\ ~crashed
    /\ pc[c] = "awaiting"
    /\ delivered[c] # << >>
    /\ pc' = [pc EXCEPT ![c] = "returned"]
    /\ ret' = [ret EXCEPT ![c] =
                  IF op[c] = "get_suggested_name_for_item"
                  THEN SuggestedNameFrom(delivered[c][1].result)
                  ELSE delivered[c][1].result]
    /\ UNCHANGED << clip_data, RUN_LOOP_SENDER, registryVars, op, handle, issued,
                    foreignVars, delivered, ignored, crashed, sender_inits,
                    reader_dropped, decoded >>

(***************************************************************************)
(* The caller drops the future get_data_for_item returned while it is      *)
(* suspended at `future.await`: the receiving half goes away, nothing      *)
(* touches PENDING, where the completer stays under its handle.            *)
(***************************************************************************)
DropFutureEffectUnregister(pending, h) == PendingRemove(pending, h).map

DropFutureEffect(pending, h) == pending

DropFuture(c) ==
    /\ ~crashed
    /\ pc[c] = "awaiting"
    /\ pc' = [pc EXCEPT ![c] = "dropped"]
    /\ PENDING' = DropFutureEffect(PENDING, handle[c])
    /\ UNCHANGED << clip_data, RUN_LOOP_SENDER, NEXT_HANDLE, op, ret, handle,
                    issued, foreignVars, delivered, ignored, crashed,
                    sender_inits, reader_dropped, decoded >>

(***************************************************************************)
(* The last reference to the reader is dropped.  A suspended call borrows  *)
(* the reader, so none is suspended then; the content object's global      *)
(* reference is released, and PENDING and NEXT_HANDLE, which are not       *)
(* fields of the reader, stay as they are.                                 *)
(***************************************************************************)
DropReader ==
    /\ ~crashed
    /\ ~reader_dropped
    /\ \A c \in Callers : pc[c] # "awaiting"
    /\ reader_dropped' = TRUE
    /\ UNCHANGED << clip_data, RUN_LOOP_SENDER, registryVars, callerVars,
                    foreignVars, delivered, ignored, crashed, sender_inits,
                    decoded >>

Next ==
    \/ \E c \in Callers : GetItems(c)
    \/ \E c \in Callers : GetFormatsForItem(c)
    \/ \E c \in Callers : GetDataForItem(c)
    \/ \E c \in Callers : GetSuggestedNameForItem(c)
    \/ \E c \in Callers : CanGetVirtualFileForItem(c)
    \/ \E c \in Callers : GetVirtualFileForItem(c)
    \/ OnDataAnswer
    \/ OnDataUnmatched
    \/ RunTask
    \/ \E c \in Callers : Resume(c)

Spec == Init /\ [][Next]_vars


(***************************************************************************)
(* The reader used by one caller, over every content object and text: the  *)
(* specification for the results of the reader's operations.               *)
(***************************************************************************)
InitReader == InitWith({NoClip} \cup ClipsOver(AllTexts))

NextReader ==
    \/ GetItems(1)
    \/ GetFormatsForItem(1)
    \/ GetSuggestedNameForItem(1)
    \/ OnDataAnswer
    \/ RunTask
    \/ Resume(1)

SpecReader == InitReader /\ [][NextReader]_vars

(***************************************************************************)
(* The fetch path under the run loop's scheduling: the run loop runs every *)
(* task posted to it, and polls a future whose completer was completed.    *)
(***************************************************************************)
InitFetch == InitWith({SampleClip})

NextFetch ==
    \/ \E c \in Callers : GetDataForItem(c)
    \/ OnDataAnswer
    \/ OnDataUnmatched
    \/ RunTask
    \/ \E c \in Callers : Resume(c)

LiveSpec ==
    /\ InitFetch
    /\ [][NextFetch]_vars
    /\ WF_vars(RunTask)
    /\ \A c \in Callers : WF_vars(Resume(c))


(***************************************************************************)
(* The fetch path with callers that give up: a suspended call's future may *)
(* be dropped, and the reader may be dropped once no call borrows it.      *)
(***************************************************************************)
NextDrop ==
    \/ NextFetch
    \/ \E c \in Callers : DropFuture(c)
    \/ DropReader

SpecDrop == InitFetch /\ [][NextDrop]_vars


(***************************************************************************)
(* The fetch path late in the life of the thread: 2^31 - 2 requests were   *)
(* made and completed, so the sender is set, PENDING is empty and the      *)
(* counter stands at the largest value a jint holds.                       *)
(***************************************************************************)
InitWide ==
    /\ clip_data = SampleClip
    /\ RUN_LOOP_SENDER = TRUE
    /\ NEXT_HANDLE = I64(JintMax)
    /\ PENDING = << >>
    /\ pc = [c \in Callers |-> "idle"]
    /\ op = [c \in Callers |-> "none"]
    /\ ret = [c \in Callers |-> NoRet]
    /\ handle = [c \in Callers |-> NoHandle]
    /\ issued = [c \in Callers |-> FALSE]
    /\ foreign = {}
    /\ queue = << >>
    /\ delivered = [c \in Callers |-> << >>]
    /\ ncb = 0
    /\ ignored = [never |-> 0, completed |-> 0]
    /\ crashed = FALSE
    /\ sender_inits = 1
    /\ reader_dropped = FALSE
    /\ decoded = NoPayload

SpecWide == InitWide /\ [][NextFetch]_vars


(***************************************************************************)
(* The fetch path with a foreign side that answers each request it         *)
(* received with one callback and makes no other callback.                 *)
(***************************************************************************)
NotYetAnswered(r) ==
    /\ \A i \in 1 .. Len(queue) : queue[i].req # r.req
    /\ delivered[r.req] = << >>
    /\ ignored = [never |-> 0, completed |-> 0]

OnDataAnswerOnce ==
    /\ \E r \in foreign, payload \in PayloadsOf(clip_data), jniOk \in BOOLEAN :
          /\ NotYetAnswered(r)
          /\ OnData(r.jh, payload, jniOk, r.req)
    /\ UNCHANGED decoded

NextOnce ==
    \/ \E c \in Callers : GetDataForItem(c)
    \/ OnDataAnswerOnce
    \/ RunTask
    \/ \E c \in Callers : Resume(c)

SpecOnce == InitFetch /\ [][NextOnce]_vars


(***************************************************************************)
(* Decoding: one caller fetches from a reader over any text, and the       *)
(* foreign side answers with null, with the reader's text, or with a byte  *)
(* array of any length up to MaxBytes, the foreign calls made while        *)
(* decoding succeeding or not.  `decoded` keeps what onData was handed.    *)
(***************************************************************************)
InitDecode == InitWith({ [SampleClip EXCEPT !.uri = t] : t \in AllTexts })

DecodePayloads ==
    PayloadsOf(clip_data) \cup { PayloadBytes(n) : n \in 0 .. MaxBytes }

OnDataDecode ==
    \E r \in foreign, payload \in DecodePayloads, jniOk \in BOOLEAN :
        /\ OnData(r.jh, payload, jniOk, r.req)
        /\ decoded' = [shape |-> payload.shape, text |-> payload.text,
                       len |-> payload.len, ok |-> jniOk]

NextDecode ==
    \/ GetDataForItem(1)
    \/ OnDataDecode
    \/ RunTask
    \/ Resume(1)

SpecDecode == InitDecode /\ [][NextDecode]_vars


(***************************************************************************)
(* Properties.                                                             *)
(***************************************************************************)
Returned(c, name) == pc[c] = "returned" /\ op[c] = name

(* C1: whatever the number of outstanding get_data_for_item calls and the  *)
(* order of the onData callbacks, an allocated handle differs from every   *)
(* other handle still in PENDING, the entry under a handle belongs to the  *)
(* caller that registered it, and a completer is only ever completed by a  *)
(* callback carrying its own handle (the answer to its own request).       *)
C1_HandleDistinctAndDeliveredToOwnCompleter ==
    /\ \A c, d \in Callers :
          (c # d /\ handle[c] # NoHandle /\ handle[d] \in DOMAIN PENDING)
              => handle[c] # handle[d]
    /\ \A h \in DOMAIN PENDING : handle[PENDING[h]] = h
    /\ \A c \in Callers : \A i \in 1 .. Len(delivered[c]) :
          /\ delivered[c][i].handle = handle[c]
          /\ delivered[c][i].req \in {NoCaller, c}

(* Two requests outstanding, the later one completed first. *)
C1_Witness ==
    \E c, d \in Callers :
        /\ I64Less(handle[c], handle[d])
        /\ issued[c] /\ issued[d]
        /\ handle[c] \in DOMAIN PENDING /\ delivered[c] = << >>
        /\ Len(delivered[d]) = 1 /\ delivered[d][1].req = d

(* C2: a get_data_for_item call that failed while issuing the foreign      *)
(* request (new_string or the getData invocation failed) has returned its  *)
(* error and left no entry of its own in PENDING.                          *)
C2_NoEntryLeftOnIssuanceFailure ==
    \A c \in Callers :
        (Returned(c, "get_data_for_item") /\ ret[c].kind = "Err" /\ ~issued[c])
            => \A h \in DOMAIN PENDING : PENDING[h] # c

(* C3: in every reachable state, an onData callback whose handle is not a  *)
(* key of PENDING has no observable effect: it does not crash the process, *)
(* and its task, finding no entry, leaves PENDING, NEXT_HANDLE and every   *)
(* completer as they were.                                                 *)
C3_UnknownHandleCallbackHasNoEffect ==
    /\ [](~crashed)
    /\ [][(RunTask /\ Head(queue).handle \notin DOMAIN PENDING)
            => UNCHANGED << PENDING, NEXT_HANDLE, delivered >>]_vars

(* C4: get_suggested_name_for_item never returns an error; on any failure  *)
(* in the chain its result is Ok(None).                                    *)
C4_SuggestedNameNeverErr ==
    \A c \in Callers :
        Returned(c, "get_suggested_name_for_item") => ret[c].kind = "Ok"

(* C5: each completer registered in PENDING is completed at most once,     *)
(* however often the foreign side calls onData with its handle.            *)
C5_CompletedAtMostOnce ==
    \A c \in Callers : Len(delivered[c]) <= 1

(* The one request made was answered twice: the first task completed it,   *)
(* the second found no entry.                                              *)
C5_Witness ==
    /\ NEXT_HANDLE = I64(FirstHandle + 1)
    /\ ignored.completed = 1
    /\ \E c \in Callers :
          /\ handle[c] = I64(FirstHandle)
          /\ Len(delivered[c]) = 1
          /\ pc[c] = "returned"

(* C6: on a reader without content object get_items and                    *)
(* get_formats_for_item return an empty sequence and get_data_for_item the *)
(* absent value, without error; no handle is allocated, nothing is         *)
(* registered in PENDING and no foreign call is issued.                    *)
C6_NoContentObject ==
    ~clip_data.some =>
        /\ NEXT_HANDLE = I64(FirstHandle)
        /\ PENDING = << >>
        /\ foreign = {}
        /\ \A c \in Callers :
              /\ Returned(c, "get_items") => ret[c] = Ok("Vec", << >>)
              /\ Returned(c, "get_formats_for_item") => ret[c] = Ok("Vec", << >>)
              /\ op[c] = "get_data_for_item" =>
                    /\ pc[c] = "returned" /\ ret[c] = ValueNull
                    /\ handle[c] = NoHandle /\ ~issued[c]

C6_Witness ==
    /\ ~clip_data.some
    /\ \E c, d \in Callers :
          /\ Returned(c, "get_data_for_item")
          /\ (Returned(d, "get_items") \/ Returned(d, "get_formats_for_item"))


(* The text a caller's fetch was completed with, << >> if none. *)
FetchedText(c) ==
    IF delivered[c] # << >> /\ delivered[c][1].result.kind = "Ok"
       /\ delivered[c][1].result.tag = "String"
    THEN delivered[c][1].result.val
    ELSE << >>

IsSuffix(t, text) ==
    Len(t) <= Len(text) /\ SubSeq(text, Len(text) - Len(t) + 1, Len(text)) = t

(* C7: when the fetched URI-list payload is a text, the suggested name is  *)
(* the final path segment of the parsed URI if that segment is non-empty,  *)
(* and none if it is empty (the text ends with a slash), if the URI has no *)
(* path segments or if the text does not parse; an earlier non-empty       *)
(* segment is never used instead.                                          *)
C7_SuggestedNameIsFinalSegment ==
    \A c \in Callers :
        (Returned(c, "get_suggested_name_for_item") /\ FetchedText(c) # << >>) =>
            LET text == FetchedText(c)
                url == UrlParse(text)
                segments == PathSegments(url)
                final == IF url.ok /\ segments # << >> THEN Last(segments) ELSE << >>
            IN  /\ final # << >> => ret[c] = OptSome(final)
                /\ final = << >> => ret[c] = OptNone
                /\ Last(text) = "/" => ret[c] = OptNone
                /\ Head(text) \notin SchemeTokens => ret[c] = OptNone
                /\ ret[c].tag = "OptSome" =>
                      /\ ret[c].val # << >>
                      /\ \A i \in 1 .. Len(ret[c].val) : ret[c].val[i] # "/"
                      /\ IsSuffix(ret[c].val, text)

(* A path that ends with a slash after a non-empty segment gives none. *)
C7_Witness ==
    \E c \in Callers :
        /\ Returned(c, "get_suggested_name_for_item")
        /\ FetchedText(c) = <<"file:", "/", "a", "/">>
        /\ ret[c] = OptNone

(* C8: on a reader holding a content object whose item count is n,         *)
(* get_items returns the sequence 0, 1, ..., n-1 (empty for n = 0).        *)
C8_ItemsAreIndexRange ==
    \A c \in Callers :
        (Returned(c, "get_items") /\ clip_data.some /\ ret[c].kind = "Ok") =>
            /\ Len(ret[c].val) = clip_data.count
            /\ \A i \in 1 .. Len(ret[c].val) : ret[c].val[i] = i - 1

C8_Witness ==
    \E c \in Callers :
        /\ Returned(c, "get_items") /\ ret[c].kind = "Ok"
        /\ clip_data.some /\ clip_data.count = MaxItems
        /\ Len(ret[c].val) = MaxItems

(* C9: whatever the reader state, can_get_virtual_file_for_item returns    *)
(* false and get_virtual_file_for_item fails with UnsupportedOperation,    *)
(* and neither changes PENDING or NEXT_HANDLE.                             *)
C9_VirtualFileUnsupported ==
    /\ [](\A c \in Callers :
            /\ Returned(c, "can_get_virtual_file_for_item")
                  => ret[c] = Ok("Bool", <<FALSE>>)
            /\ Returned(c, "get_virtual_file_for_item")
                  => ret[c] = UnsupportedOperation)
    /\ [][\A c \in Callers :
            (CanGetVirtualFileForItem(c) \/ GetVirtualFileForItem(c))
                => UNCHANGED registryVars]_vars

(* Either operation called while an earlier request is outstanding. *)
C9_Witness ==
    \E c, d \in Callers :
        /\ d < c
        /\ pc[d] = "awaiting" /\ handle[d] \in DOMAIN PENDING
        /\ \/ Returned(c, "can_get_virtual_file_for_item")
           \/ Returned(c, "get_virtual_file_for_item")

(* C10: once getData was invoked for a request and an onData callback      *)
(* carrying its handle has posted its task, the run loop eventually        *)
(* resumes the caller with a result, with the handle's entry gone from     *)
(* PENDING.                                                                *)
C10_AnsweredRequestEventuallyResumed ==
    \A c \in Callers :
        (issued[c] /\ \E i \in 1 .. Len(queue) : queue[i].handle = handle[c])
            ~> (pc[c] = "returned" /\ ret[c] # NoRet
                /\ handle[c] \notin DOMAIN PENDING)

C10_Witness ==
    \E c \in Callers :
        /\ issued[c] /\ pc[c] = "returned" /\ ret[c] # NoRet
        /\ Len(delivered[c]) = 1 /\ delivered[c][1].req = c
        /\ handle[c] \notin DOMAIN PENDING


(* C11: a callback whose decoding fails still posts its task: every onData *)
(* invocation that does not panic appends one task to the run loop's       *)
(* queue, and when the next task queued for the handle of a suspended      *)
(* caller carries an error, the caller is eventually resumed with that     *)
(* error and the handle's entry is gone from PENDING.                      *)
ErrorPostedFor(c) ==
    /\ pc[c] = "awaiting"
    /\ handle[c] \in DOMAIN PENDING
    /\ \E i \in 1 .. Len(queue) :
          /\ queue[i].handle = handle[c]
          /\ queue[i].result.kind = "Err"
          /\ \A j \in 1 .. (i - 1) : queue[j].handle # handle[c]

C11_DecodeErrorReachesCaller ==
    /\ [][(ncb' = ncb + 1 /\ ~crashed') => Len(queue') = Len(queue) + 1]_vars
    /\ \A c \in Callers :
          ErrorPostedFor(c)
              ~> (Returned(c, "get_data_for_item") /\ ret[c] = JniError
                  /\ handle[c] \notin DOMAIN PENDING)

C11_Witness ==
    \E c \in Callers :
        /\ Returned(c, "get_data_for_item") /\ issued[c]
        /\ ret[c] = JniError
        /\ Len(delivered[c]) = 1 /\ delivered[c][1].result = JniError
        /\ handle[c] \notin DOMAIN PENDING

(* C12: an onData invocation leaves PENDING and NEXT_HANDLE as they are    *)
(* and posts at most one task; PENDING and NEXT_HANDLE change only in a    *)
(* step of a call made on the reader or of a task run by the run loop; an  *)
(* entry leaves PENDING only in the step that runs the task at the head of *)
(* the queue, and it is the entry under that task's handle.                *)
OwnerCallStep ==
    \E c \in Callers :
        /\ pc[c] = "idle" /\ pc'[c] # "idle"
        /\ op'[c] \in {"get_data_for_item", "get_suggested_name_for_item"}

RunLoopTaskStep == queue # << >> /\ queue' = Tail(queue) /\ ncb' = ncb

C12_RegistryTouchedOnlyByOwner ==
    /\ [][ncb' # ncb => /\ UNCHANGED registryVars
                        /\ queue' = queue \/ Len(queue') = Len(queue) + 1]_vars
    /\ [][registryVars' # registryVars => OwnerCallStep \/ RunLoopTaskStep]_vars
    /\ [][\A h \in DOMAIN PENDING :
             h \notin DOMAIN PENDING'
                 => RunLoopTaskStep /\ Head(queue).handle = h]_vars

(* A callback arrived while its request was registered, and the entry was  *)
(* still there until the task ran.                                         *)
C12_Witness ==
    \E c \in Callers :
        /\ issued[c] /\ ncb > 0
        /\ handle[c] \in DOMAIN PENDING
        /\ \E i \in 1 .. Len(queue) : queue[i].handle = handle[c]

(* C13: NEXT_HANDLE is at least 1 and no step decreases it; every key of   *)
(* PENDING is at least 1 and below NEXT_HANDLE; and the handle a call      *)
(* allocates is not a key of PENDING when the call inserts its entry.      *)
C13_HandlesBelowCounter ==
    /\ [](/\ ~I64Less(NEXT_HANDLE, I64(FirstHandle))
          /\ \A h \in DOMAIN PENDING :
                ~I64Less(h, I64(FirstHandle)) /\ I64Less(h, NEXT_HANDLE))
    /\ [][~I64Less(NEXT_HANDLE', NEXT_HANDLE)]_vars
    /\ [][\A c \in Callers :
             (handle[c] = NoHandle /\ handle'[c] # NoHandle)
                 => handle'[c] \notin DOMAIN PENDING]_vars

(* Two entries registered under different handles, the counter past both.  *)
C13_Witness ==
    /\ NEXT_HANDLE = I64(FirstHandle + 2)
    /\ DOMAIN PENDING = {I64(FirstHandle), I64(FirstHandle + 1)}

(* C14: an entry leaves PENDING only in the step that runs a completion    *)
(* task carrying its own handle; as long as no such task has completed a   *)
(* request that was issued, its entry stays in PENDING under its handle    *)
(* and its caller has not been resumed, whatever else happens: other       *)
(* requests completing, new calls, the caller dropping the future it       *)
(* awaits, the reader being dropped.                                       *)
C14_EntryStaysUntilOwnCompletion ==
    /\ [](\A c \in Callers :
             (issued[c] /\ delivered[c] = << >>)
                 => /\ handle[c] \in DOMAIN PENDING
                    /\ PENDING[handle[c]] = c
                    /\ pc[c] \in {"awaiting", "dropped"}
                    /\ ret[c] = NoRet)
    /\ [][\A c \in Callers :
             (handle[c] \in DOMAIN PENDING /\ handle[c] \notin DOMAIN PENDING')
                 => /\ queue # << >>
                    /\ queue' = Tail(queue)
                    /\ Head(queue).handle = handle[c]]_vars

(* The caller of the first request dropped its future and the reader was   *)
(* dropped, a later request was completed, and the first entry is still    *)
(* there.                                                                  *)
C14_Witness ==
    \E c, d \in Callers :
        /\ issued[c] /\ pc[c] = "dropped" /\ reader_dropped
        /\ handle[c] \in DOMAIN PENDING /\ delivered[c] = << >>
        /\ I64Less(handle[c], handle[d])
        /\ issued[d] /\ pc[d] = "returned" /\ Len(delivered[d]) = 1

(* C15: the handle the foreign side hands back through onData, widened by  *)
(* `handle as i64`, is the handle get_data_for_item allocated for the      *)
(* request, whatever the value of the counter.                             *)
C15_HandleSurvivesJint ==
    \A r \in foreign : I64OfJint(r.jh) = handle[r.req]

(* C16: when the foreign side calls back at most once per handle, every    *)
(* task posted for a handle finds that handle among the keys of PENDING    *)
(* when it runs: the entry is there from before getData is invoked until   *)
(* the task removes it, so no posted task is ever ignored.                 *)
C16_PostedTaskFindsEntry ==
    /\ ignored = [never |-> 0, completed |-> 0]
    /\ \A i \in 1 .. Len(queue) :
          /\ queue[i].handle \in DOMAIN PENDING
          /\ PENDING[queue[i].handle] = queue[i].req
    /\ \A r \in foreign :
          delivered[r.req] = << >> => handle[r.req] \in DOMAIN PENDING

(* Both requests answered, one task run and its caller's completer         *)
(* completed, the other task still queued.                                 *)
C16_Witness ==
    \E c, d \in Callers :
        /\ c # d /\ issued[c] /\ issued[d]
        /\ Len(delivered[c]) = 1 /\ handle[c] \notin DOMAIN PENDING
        /\ Len(queue) = 1 /\ queue[1].req = d
        /\ handle[d] \in DOMAIN PENDING

(* C17: the initialiser of RUN_LOOP_SENDER runs at most once; once the     *)
(* sender is set no step unsets it; and whenever the foreign side holds a  *)
(* request it can answer the sender is set and no callback has panicked    *)
(* for want of it, so the onData answering an issued request can post.     *)
C17_SenderSetOnceBeforeAnyAnswer ==
    /\ [](/\ sender_inits <= 1
          /\ RUN_LOOP_SENDER <=> sender_inits = 1
          /\ foreign # {} => RUN_LOOP_SENDER
          /\ crashed => ~RUN_LOOP_SENDER /\ foreign = {})
    /\ [][RUN_LOOP_SENDER => RUN_LOOP_SENDER' /\ sender_inits' = sender_inits]_vars

(* Two calls were made, the second with the sender already set, and a      *)
(* callback answering one of them posted its task.                         *)
C17_Witness ==
    /\ sender_inits = 1
    /\ \A c \in Callers : op[c] = "get_data_for_item"
    /\ foreign # {} /\ ncb > 0 /\ ~crashed
    /\ \E i \in 1 .. Len(queue) : queue[i].req # NoCaller

(* C18: the result a callback posts is fixed by the payload it was handed: *)
(* a null payload gives the absent value, whatever the foreign calls would *)
(* do; a failing foreign call while decoding a non-null payload gives the  *)
(* error; a text gives that text; any other payload gives a byte sequence  *)
(* as long as the payload's array.  The result is exactly one of the four. *)
IsAbsent(r) == r = ValueNull
IsText(r) == r.kind = "Ok" /\ r.tag = "String"
IsBytes(r) == r.kind = "Ok" /\ r.tag = "U8List"
IsError(r) == r.kind = "Err"

OneOfFour(r) ==
    Cardinality({ k \in {"absent", "text", "bytes", "error"} :
                     \/ k = "absent" /\ IsAbsent(r)
                     \/ k = "text" /\ IsText(r)
                     \/ k = "bytes" /\ IsBytes(r)
                     \/ k = "error" /\ IsError(r) }) = 1

C18_ResultFixedByPayloadShape ==
    (decoded # NoPayload /\ queue # << >>) =>
        LET r == Last(queue).result
        IN  /\ OneOfFour(r)
            /\ decoded.shape = "null" => IsAbsent(r)
            /\ (decoded.shape # "null" /\ ~decoded.ok) => r = JniError
            /\ (decoded.shape = "chars" /\ decoded.ok)
                  => IsText(r) /\ r.val = decoded.text
            /\ (decoded.shape = "bytes" /\ decoded.ok)
                  => IsBytes(r) /\ Len(r.val) = decoded.len

(* A text was decoded and delivered, then a byte array was decoded. *)
C18_Witness ==
    /\ decoded.shape = "bytes" /\ decoded.ok /\ decoded.len = MaxBytes
    /\ queue # << >> /\ IsBytes(Last(queue).result)
    /\ Len(delivered[1]) = 1 /\ IsText(delivered[1][1].result)
    /\ delivered[1][1].result.val # << >>

(* C19: when the foreign bridge is unavailable, get_data_for_item on a     *)
(* reader with a content object returns that error at once: the call step  *)
(* itself returns, NEXT_HANDLE and PENDING are as before it, no handle was *)
(* allocated and getData was not invoked.                                  *)
C19_BridgeUnavailableLeavesRegistry ==
    /\ [](\A c \in Callers :
             (Returned(c, "get_data_for_item") /\ ret[c] = OtherError)
                 => /\ clip_data.some
                    /\ handle[c] = NoHandle
                    /\ ~issued[c]
                    /\ \A r \in foreign : r.req # c)
    /\ [][\A c \in Callers :
             (pc[c] = "idle" /\ op'[c] = "get_data_for_item"
              /\ ret'[c] = OtherError)
                 => /\ pc'[c] = "returned"
                    /\ UNCHANGED << registryVars, foreign, queue >>]_vars

(* The bridge was unavailable for a call made while an earlier request was *)
(* registered: the later call returned the error, the entry is untouched.  *)
C19_Witness ==
    \E c, d \in Callers :
        /\ issued[c] /\ handle[c] \in DOMAIN PENDING
        /\ Returned(d, "get_data_for_item") /\ ret[d] = OtherError
        /\ NEXT_HANDLE = I64Succ(handle[c])
====
